---- MODULE Spec2Model ----
(***************************************************************************)
(* Model of package uuid (src/uuid.go, lines 1-345: the current snapshot   *)
(* of the library).                                                        *)
(*                                                                         *)
(* A Go string / []byte is a sequence of bytes (0..255); characters are    *)
(* their ASCII codes.  A UUID value (type UUID string) is such a sequence; *)
(* Nil is the empty one.  uint64 / int64 values are 8 big-endian bytes     *)
(* (two's complement), a big.Int is its big-endian byte string without     *)
(* leading zero bytes, so that no arithmetic leaves the range of the       *)
(* model checker's integers.                                               *)
(***************************************************************************)
EXTENDS Integers, Sequences, FiniteSets, TLC

VARIABLES u, derived, last, chain

vars == <<u, derived, last, chain>>

(***************************************************************************)
(* Bytes, slices, strings                                                  *)
(***************************************************************************)
Byte == 0..255

\* s[lo:hi] of Go, 0-based, hi exclusive; the caller has checked the bounds
Slice(s, lo, hi) == [i \in 1..(hi - lo) |-> s[lo + i]]

\* s[i] of Go, 0-based
At(s, i) == s[i + 1]

\* n copies of byte b
Rep(n, b) == [i \in 1..n |-> b]

\* strings.ToLower on ASCII text: 'A'..'Z' -> 'a'..'z'
ToLowerByte(c) == IF c >= 65 /\ c <= 90 THEN c + 32 ELSE c

ToLower(s) == [i \in 1..Len(s) |-> ToLowerByte(s[i])]

\* strings.ToUpper on ASCII text (only used to build inputs)
ToUpperByte(c) == IF c >= 97 /\ c <= 122 THEN c - 32 ELSE c

ToUpper(s) == [i \in 1..Len(s) |-> ToUpperByte(s[i])]

\* bit k of byte a
Bit(a, k) == (a \div (2 ^ k)) % 2

\* arr[i] = b1[i]: the right operand left out
LeftByte(a, b) == a

\* a | b in place of a ^ b
OrBit(x, y) == IF x + y > 0 THEN 1 ELSE 0

OrByte(a, b) ==
  OrBit(Bit(a, 0), Bit(b, 0)) + 2 * OrBit(Bit(a, 1), Bit(b, 1))
  + 4 * OrBit(Bit(a, 2), Bit(b, 2)) + 8 * OrBit(Bit(a, 3), Bit(b, 3))
  + 16 * OrBit(Bit(a, 4), Bit(b, 4)) + 32 * OrBit(Bit(a, 5), Bit(b, 5))
  + 64 * OrBit(Bit(a, 6), Bit(b, 6)) + 128 * OrBit(Bit(a, 7), Bit(b, 7))

\* a ^ b on bytes, bit by bit
XorBit(x, y) == (x + y) % 2

XorByte(a, b) ==
  XorBit(Bit(a, 0), Bit(b, 0)) + 2 * XorBit(Bit(a, 1), Bit(b, 1))
  + 4 * XorBit(Bit(a, 2), Bit(b, 2)) + 8 * XorBit(Bit(a, 3), Bit(b, 3))
  + 16 * XorBit(Bit(a, 4), Bit(b, 4)) + 32 * XorBit(Bit(a, 5), Bit(b, 5))
  + 64 * XorBit(Bit(a, 6), Bit(b, 6)) + 128 * XorBit(Bit(a, 7), Bit(b, 7))

(***************************************************************************)
(* encoding/hex                                                            *)
(***************************************************************************)
\* const hextable = "0123456789abcdef"
hextable == <<48, 49, 50, 51, 52, 53, 54, 55, 56, 57, 97, 98, 99, 100, 101, 102>>

\* hex.Encode(dst, src): dst[2i] = hextable[v>>4], dst[2i+1] = hextable[v&0x0f]
HexEncode(src) ==
  [i \in 1..(2 * Len(src)) |->
     IF i % 2 = 1 THEN hextable[(src[(i + 1) \div 2] \div 16) + 1]
     ELSE hextable[(src[i \div 2] % 16) + 1]]

\* fromHexChar: the value of a hex digit, -1 when c is none
fromHexChar(c) ==
  IF c >= 48 /\ c <= 57 THEN c - 48
  ELSE IF c >= 97 /\ c <= 102 THEN c - 97 + 10
  ELSE IF c >= 65 /\ c <= 70 THEN c - 65 + 10
  ELSE -1

\* hex.Decode(dst, src): every full pair is decoded until the first invalid
\* byte (InvalidByteError); a trailing single character gives ErrLength when
\* it is a hex digit and InvalidByteError when it is not.
HexPairsOk(src) ==
  \A i \in 1..(2 * (Len(src) \div 2)) : fromHexChar(src[i]) >= 0

HexDecodeErr(src) ==
  IF ~HexPairsOk(src) THEN "encoding/hex: invalid byte"
  ELSE IF Len(src) % 2 = 1
       THEN IF fromHexChar(src[Len(src)]) < 0 THEN "encoding/hex: invalid byte"
            ELSE "encoding/hex: odd length hex string"
       ELSE ""

HexDecodeBytes(src) ==
  [i \in 1..(Len(src) \div 2) |->
     fromHexChar(src[2 * i - 1]) * 16 + fromHexChar(src[2 * i])]

\* The two implementations of hex.DecodeString among Go releases:
\* "inplace": src := []byte(s); n, err := Decode(src, src); return src[:n], err
\* "alloc":   dst := make([]byte, DecodedLen(len(s))); n, err := Decode(dst,
\*            []byte(s)); return dst[:n], err
HexLibs == {"inplace", "alloc"}

\* hex.DecodeString(s).  b is the slice returned, of length n, and err the
\* error; both are the same in every release.  arr is the array of the
\* in-place decoder, which b shares there: at least len(s) bytes, those
\* from n on still the characters of s.
DecodeString(s) ==
  LET e == HexDecodeErr(s)
      b == IF e = "" THEN HexDecodeBytes(s) ELSE <<>>
  IN [b   |-> b,
      arr |-> [i \in 1..Len(s) |-> IF i <= Len(b) THEN b[i] ELSE s[i]],
      err |-> e]

\* the array behind the slice d.b, up to its capacity: the array of the
\* in-place decoder, or exactly the bytes of the slice
Backing(d, lib) == IF lib = "inplace" THEN d.arr ELSE d.b

(***************************************************************************)
(* Package constants and the codec                                         *)
(***************************************************************************)
\* const size = 16
size == 16

\* var Nil UUID: the zero value of a string type
Nil == <<>>

\* byteGroups = []int{8, 4, 4, 4, 12}
byteGroups == <<8, 4, 4, 4, 12>>

\* encodeBytes(u []byte) []byte, for a slice of at least 16 bytes
encodeBytes(b) ==
  HexEncode(Slice(b, 0, 4)) \o <<45>> \o
  HexEncode(Slice(b, 4, 6)) \o <<45>> \o
  HexEncode(Slice(b, 6, 8)) \o <<45>> \o
  HexEncode(Slice(b, 8, 10)) \o <<45>> \o
  HexEncode(Slice(b, 10, Len(b)))

\* The character classes of uuidRegex, one per position of the text between
\* ^ and $: [0-9a-f], -, [1-5], [89ab].
ClsHex == (48..57) \cup (97..102)
ClsDash == {45}
ClsVersion == 49..53
ClsVariant == {56, 57, 97, 98}

uuidRegex ==
  Rep(8, ClsHex) \o <<ClsDash>> \o Rep(4, ClsHex) \o <<ClsDash>> \o
  <<ClsVersion>> \o Rep(3, ClsHex) \o <<ClsDash>> \o
  <<ClsVariant>> \o Rep(3, ClsHex) \o <<ClsDash>> \o Rep(12, ClsHex)

\* (?i): a class also matches the other case of each of its letters
FoldClass(cls) == cls \cup {ToUpperByte(c) : c \in cls} \cup {ToLowerByte(c) : c \in cls}

\* the match without the flag (?i)
MatchStringCaseSensitive(str) ==
  /\ Len(str) = Len(uuidRegex)
  /\ \A i \in 1..Len(uuidRegex) : str[i] \in uuidRegex[i]

\* uuidRegex.MatchString(str): anchored at both ends, so the text has one
\* character per class
MatchString(str) ==
  /\ Len(str) = Len(uuidRegex)
  /\ \A i \in 1..Len(uuidRegex) : str[i] \in FoldClass(uuidRegex[i])

\* the literal "00000000-0000-0000-0000-000000000000"
ZeroUUIDString == encodeBytes(Rep(16, 0))

\* the literal "00000000000000000000000000000000"
ZeroHashString == Rep(32, 48)

\* (UUID, error) results: status is "ok", "error" or "panic"; err is the
\* error's message up to the input it quotes
Ok(val) == [val |-> val, status |-> "ok", err |-> ""]
Fail(msg) == [val |-> Nil, status |-> "error", err |-> msg]
Panic(msg) == [val |-> Nil, status |-> "panic", err |-> msg]

\* FromString(str string) (UUID, error)
FromString(str) ==
  IF str = <<>> \/ str = ZeroUUIDString THEN Ok(Nil)
  ELSE IF ~MatchString(str) THEN Fail("invalid uuid: ")
  ELSE Ok(ToLower(str))

\* FromHashLike(str string) (UUID, error)
FromHashLike(str) ==
  IF str = <<>> \/ str = ZeroHashString THEN Ok(Nil)
  ELSE IF Len(str) # 32 THEN Fail("invalid uuid: ")
  ELSE LET uuid == Slice(str, 0, 8) \o <<45>> \o Slice(str, 8, 12) \o <<45>> \o
                   Slice(str, 12, 16) \o <<45>> \o Slice(str, 16, 20) \o <<45>> \o
                   Slice(str, 20, Len(str))
       IN IF ~MatchString(uuid) THEN Fail("invalid uuid: ")
          ELSE Ok(ToLower(uuid))

\* (u UUID) HashLike() string.  The slice expressions u[19:23] and u[24:]
\* panic when the string has fewer than 24 bytes.
HashLikePanics(x) == x # Nil /\ Len(x) < 24

HashLike(x) ==
  IF x = Nil THEN <<>>
  ELSE Slice(x, 0, 8) \o Slice(x, 9, 13) \o Slice(x, 14, 18) \o
       Slice(x, 19, 23) \o Slice(x, 24, Len(x))

(***************************************************************************)
(* Fixed-width and arbitrary-precision arithmetic on big-endian bytes      *)
(***************************************************************************)
\* leading zero bytes removed: the bytes of a big.Int (nat.norm, Int.Bytes)
RECURSIVE Norm(_)
Norm(s) == IF s # <<>> /\ s[1] = 0 THEN Norm(Tail(s)) ELSE s

PadLeft(s, n) == Rep(n - Len(s), 0) \o s

\* digits 1..k of x + y + c, for x and y of one length; the carry out of
\* digit 1 is dropped
RECURSIVE AddFrom(_, _, _, _)
AddFrom(x, y, k, c) ==
  IF k = 0 THEN <<>>
  ELSE LET s == x[k] + y[k] + c
       IN IF s >= 256 THEN Append(AddFrom(x, y, k - 1, 1), s - 256)
          ELSE Append(AddFrom(x, y, k - 1, 0), s)

\* digits 1..k of x * m + c, for a small m; the carry out of digit 1 is dropped
RECURSIVE MulFrom(_, _, _, _)
MulFrom(x, m, k, c) ==
  IF k = 0 THEN <<>>
  ELSE LET s == x[k] * m + c
       IN IF s < 256 THEN Append(MulFrom(x, m, k - 1, 0), s)
          ELSE Append(MulFrom(x, m, k - 1, s \div 256), s % 256)

\* the number written by digits 1..k of x, modulo a small d
RECURSIVE RemPrefix(_, _, _)
RemPrefix(x, d, k) ==
  IF k = 0 THEN 0 ELSE (RemPrefix(x, d, k - 1) * 256 + x[k]) % d

\* x / d and x % d for an unsigned x and a small d (long division)
DivSmall(x, d) ==
  [k \in 1..Len(x) |-> (RemPrefix(x, d, k - 1) * 256 + x[k]) \div d]

ModSmall(x, d) == RemPrefix(x, d, Len(x))

\* x > y for unsigned numbers of one length
Greater(x, y) ==
  \E i \in 1..Len(x) : x[i] > y[i] /\ \A j \in 1..(i - 1) : x[j] = y[j]

\* (*big.Int).SetBytes(buf): buf read as a big-endian unsigned number
SetBytes(buf) == Norm(buf)

\* (*big.Int).Add(x, y) for non-negative x and y
BigAdd(x, y) ==
  LET n == (IF Len(x) > Len(y) THEN Len(x) ELSE Len(y)) + 1
  IN Norm(AddFrom(PadLeft(x, n), PadLeft(y, n), n, 0))

\* (*big.Int).UnmarshalText(text) for a text of decimal digits with no
\* sign and no base prefix, its length a multiple of 3: the value is
\* accumulated from the left, three digits at a time
RECURSIVE ParseDecimal(_, _)
ParseDecimal(text, k) ==
  IF k = 0 THEN <<>>
  ELSE LET acc == ParseDecimal(text, k - 3)
           p == PadLeft(acc, Len(acc) + 2)
           d == (text[k - 2] - 48) * 100 + (text[k - 1] - 48) * 10 + (text[k] - 48)
       IN Norm(MulFrom(p, 1000, Len(p), d))

\* the text "908070605040302010203040506070809" of init()
bigPrimeText ==
  <<57, 48, 56, 48, 55, 48, 54, 48, 53, 48, 52, 48, 51, 48, 50, 48, 49,
    48, 50, 48, 51, 48, 52, 48, 53, 48, 54, 48, 55, 48, 56, 48, 57>>

\* bigPrime left at zero: init() drops the error of UnmarshalText
bigPrimeUnset == <<>>

\* var bigPrime *big.Int, set by init()
bigPrime == ParseDecimal(bigPrimeText, Len(bigPrimeText))

(***************************************************************************)
(* Instants: time.Time as Unix seconds (int64, 8 bytes) and nanoseconds    *)
(***************************************************************************)
\* Timestamp(t): uint64(t.Unix())*1000 + uint64(t.Nanosecond()/1e6), in uint64
Timestamp(t) == MulFrom(t.unix, 1000, 8, t.nsec \div 1000000)

\* Time with the remainder scaled to microseconds
TimeMicros(ms) == [unix |-> DivSmall(ms, 1000), nsec |-> ModSmall(ms, 1000) * 1000]

\* Time(ms): time.Unix(int64(ms/1e3), int64((ms%1e3)*1e6)).UTC()
Time(ms) == [unix |-> DivSmall(ms, 1000), nsec |-> ModSmall(ms, 1000) * 1000000]

\* time.Time{}.UTC(): January 1 of year 1, Unix second -62135596800
ZeroTime == [unix |-> <<255, 255, 255, 241, 136, 110, 9, 0>>, nsec |-> 0]

\* (u UUID) TimeUUIDToTime() (time.Time, error)
TimeUUIDToTime(x) ==
  IF HashLikePanics(x)
  THEN [t |-> ZeroTime, status |-> "panic", err |-> "slice bounds out of range"]
  ELSE LET d == DecodeString(HashLike(x))
           tmp == d.b
       IN IF d.err # "" THEN [t |-> ZeroTime, status |-> "error", err |-> d.err]
          ELSE IF Len(tmp) < 6
               THEN [t |-> ZeroTime, status |-> "panic", err |-> "index out of range"]
               ELSE [t |-> Time(<<0, 0>> \o Slice(tmp, 0, 6)), status |-> "ok", err |-> ""]

\* var maxTime uint64, set by init() from "ffffffff-ffff-1000-a000-000000000000"
maxTimeUUID ==
  FromString(encodeBytes(<<255, 255, 255, 255, 255, 255, 16, 0,
                           160, 0, 0, 0, 0, 0, 0, 0>>)).val

maxTime == Timestamp(TimeUUIDToTime(maxTimeUUID).t)

(***************************************************************************)
(* Generation and derivation                                               *)
(***************************************************************************)
\* the version stamp forgotten
StampVersionForgotten(b) == b

\* u[6] = (u[6] & 0x0f) | (v4 << 4)
StampVersion(b) == (b % 16) + 64

\* the variant mask one bit too wide: 0xff>>1
StampVariantWide(b) == (b % 128) + 128

\* u[8] = u[8]&(0xff>>2) | (0x02 << 6)
StampVariant(b) == (b % 64) + 128

\* NewV4() UUID; r is what io.ReadFull got from rand.Reader: 16 bytes, or
\* fewer when the read failed
NewV4(r) ==
  IF Len(r) < size THEN Panic("rand")
  ELSE Ok(encodeBytes([i \in 1..size |->
            IF i = 7 THEN StampVersion(r[i])
            ELSE IF i = 9 THEN StampVariant(r[i])
            ELSE r[i]]))

\* NewTime(t time.Time) UUID; r is what io.ReadFull read into u[6:]: 10
\* bytes, or fewer when the read failed
NewTime(t, r) ==
  IF Len(r) < size - 6 THEN Panic("rand")
  ELSE LET ms == Timestamp(t)
       IN IF Greater(ms, maxTime) THEN Panic("time too big")
          ELSE Ok(encodeBytes([i \in 1..size |->
                    IF i <= 6 THEN ms[i + 2]
                    ELSE IF i = 7 THEN StampVersion(r[i - 6])
                    ELSE IF i = 9 THEN StampVariant(r[i - 6])
                    ELSE r[i - 6]]))

\* appendAll(bs ...[]byte) []byte
RECURSIVE appendAll(_)
appendAll(bs) == IF bs = <<>> THEN <<>> ELSE Head(bs) \o appendAll(Tail(bs))

\* the overflow cut of Next, with the bug of keeping the leading bytes
CutOverflowLeading(newB) == IF Len(newB) > 14 THEN Slice(newB, 0, 14) ELSE newB

\* if len(newB) > 14 { newB = newB[len(newB)-14:] }
CutOverflow(newB) ==
  IF Len(newB) > 14 THEN Slice(newB, Len(newB) - 14, Len(newB)) ELSE newB

\* (u UUID) Next() (UUID, error), built with the hex.DecodeString of lib.
\* b[0:6], b[6:7], b[7:8], b[8:9] and b[9:16] read the array behind b up
\* to its capacity, whatever len(b) is, and panic beyond it.  len(b) is at
\* least 10 once HashLike returned.
Next(x, lib) ==
  IF x = Nil THEN Ok(Nil)
  ELSE IF HashLikePanics(x) THEN Panic("slice bounds out of range")
  ELSE LET d == DecodeString(HashLike(x))
           b == Backing(d, lib)
           newB == appendAll(<<Slice(b, 0, 6), Slice(b, 7, 8), Slice(b, 9, 16)>>)
           cut == CutOverflow(BigAdd(SetBytes(newB), bigPrime))
       IN IF d.err # "" THEN Fail("invalid uuid: ")
          ELSE IF Len(b) < 16 THEN Panic("slice bounds out of range")
          ELSE IF Len(cut) < 14 THEN Panic("slice bounds out of range")
          ELSE Ok(encodeBytes(appendAll(<<Slice(cut, 0, 6), Slice(b, 6, 7),
                                          Slice(cut, 6, 7), Slice(b, 8, 9),
                                          Slice(cut, 7, 14)>>)))

\* (u UUID) XOR(v UUID) (UUID, error)
XOR(x, y) ==
  IF x = Nil \/ y = Nil THEN Ok(Nil)
  ELSE IF HashLikePanics(x) \/ HashLikePanics(y)
       THEN Panic("slice bounds out of range")
  ELSE LET d1 == DecodeString(HashLike(x))
           d2 == DecodeString(HashLike(y))
           b1 == d1.b
           b2 == d2.b
           arr == [i \in 1..16 |->
                     IF i <= Len(b1) THEN XorByte(b1[i], b2[i]) ELSE 0]
       IN IF d1.err # "" THEN Fail("invalid left side parameter: ")
          ELSE IF d2.err # "" THEN Fail("invalid right side parameter: ")
          ELSE IF Len(b1) > 16 \/ Len(b1) > Len(b2)
               THEN Panic("index out of range")
          ELSE Ok(encodeBytes([i \in 1..16 |->
                    IF i = 7 THEN StampVersion(arr[i])
                    ELSE IF i = 9 THEN StampVariant(arr[i])
                    ELSE arr[i]]))

(***************************************************************************)
(* Adapters: text, JSON, binary, database/sql                              *)
(***************************************************************************)
\* (u UUID) String() string
String(x) == x

\* (u UUID) MarshalText() ([]byte, error)
MarshalText(x) == [out |-> String(x), null |-> FALSE, status |-> "ok", err |-> ""]

\* results of the pointer-receiver decoders: u is the receiver afterwards
Decoded(x, status, err, typ) == [u |-> x, status |-> status, err |-> err, typ |-> typ]

\* (u *UUID) UnmarshalText(text []byte) error
UnmarshalText(x, text) ==
  LET r == FromString(text)
  IN IF r.status # "ok" THEN Decoded(x, r.status, r.err, "")
     ELSE Decoded(r.val, "ok", "", "")

\* utf8.DecodeRuneInString at the 1-based position i of s: the width of
\* the encoding that starts there, 0 when the bytes are no valid encoding
\* (the library then reports RuneError with width 1)
ByteAt(s, i) == IF i >= 1 /\ i <= Len(s) THEN s[i] ELSE 0

Cont(c) == c >= 128 /\ c <= 191

UTF8Width(s, i) ==
  LET c0 == s[i]
      c1 == ByteAt(s, i + 1)
      c2 == ByteAt(s, i + 2)
      c3 == ByteAt(s, i + 3)
  IN IF c0 < 128 THEN 1
     ELSE IF c0 >= 194 /\ c0 <= 223 THEN (IF Cont(c1) THEN 2 ELSE 0)
     ELSE IF c0 = 224
          THEN (IF c1 >= 160 /\ c1 <= 191 /\ Cont(c2) THEN 3 ELSE 0)
     ELSE IF c0 = 237
          THEN (IF c1 >= 128 /\ c1 <= 159 /\ Cont(c2) THEN 3 ELSE 0)
     ELSE IF c0 >= 225 /\ c0 <= 239
          THEN (IF Cont(c1) /\ Cont(c2) THEN 3 ELSE 0)
     ELSE IF c0 = 240
          THEN (IF c1 >= 144 /\ c1 <= 191 /\ Cont(c2) /\ Cont(c3) THEN 4 ELSE 0)
     ELSE IF c0 >= 241 /\ c0 <= 243
          THEN (IF Cont(c1) /\ Cont(c2) /\ Cont(c3) THEN 4 ELSE 0)
     ELSE IF c0 = 244
          THEN (IF c1 >= 128 /\ c1 <= 143 /\ Cont(c2) /\ Cont(c3) THEN 4 ELSE 0)
     ELSE 0

\* the code point of the valid encoding of width w at i
RuneAt(s, i, w) ==
  IF w = 1 THEN s[i]
  ELSE IF w = 2 THEN (s[i] - 192) * 64 + (s[i + 1] - 128)
  ELSE IF w = 3
       THEN (s[i] - 224) * 4096 + (s[i + 1] - 128) * 64 + (s[i + 2] - 128)
  ELSE (s[i] - 240) * 262144 + (s[i + 1] - 128) * 4096
       + (s[i + 2] - 128) * 64 + (s[i + 3] - 128)

\* position i is a later byte of a valid encoding that starts before it
InRune(s, i) ==
  \E j \in (i - 3)..(i - 1) : j >= 1 /\ UTF8Width(s, j) > i - j

\* utf8.EncodeRune
EncodeRune(r) ==
  IF r < 128 THEN <<r>>
  ELSE IF r < 2048 THEN <<192 + (r \div 64), 128 + (r % 64)>>
  ELSE IF r < 65536
       THEN <<224 + (r \div 4096), 128 + ((r \div 64) % 64), 128 + (r % 64)>>
  ELSE <<240 + (r \div 262144), 128 + ((r \div 4096) % 64),
         128 + ((r \div 64) % 64), 128 + (r % 64)>>

\* the sequences toks[lo], ..., toks[hi] joined
RECURSIVE Flat(_, _, _)
Flat(toks, lo, hi) ==
  IF lo > hi THEN <<>>
  ELSE IF lo = hi THEN toks[lo]
  ELSE Flat(toks, lo, (lo + hi) \div 2) \o Flat(toks, (lo + hi) \div 2 + 1, hi)

\* the letters of the escapes \a \b \t \n \v \f \r, for the bytes 7 to 13
EscapeLetters == <<97, 98, 116, 110, 118, 102, 114>>

\* \x and two hex digits
HexEscape(c) == <<92, 120, hextable[(c \div 16) + 1], hextable[(c % 16) + 1]>>

\* \u and four hex digits, or \U and eight
HexDigits(r, n) == [k \in 1..n |-> hextable[((r \div (16 ^ (n - k))) % 16) + 1]]

UnicodeEscape(r) ==
  IF r < 65536 THEN <<92, 117>> \o HexDigits(r, 4)
  ELSE <<92, 85>> \o HexDigits(r, 8)

\* code points above U+00FF that strconv.IsPrint refuses in every release:
\* they are no letter, mark, number, punctuation or symbol.  U+0378, U+0379
\* (unassigned); U+1680, U+180E; U+2000-U+200F (spaces, formatting);
\* U+2028-U+202F (line and paragraph separator, directional formatting, a
\* space); U+205F-U+2064; U+3000; U+E000-U+F8FF (private use);
\* U+FDD0-U+FDEF, U+xFFFE, U+xFFFF (noncharacters); U+FEFF; U+E0001,
\* U+E0020-U+E007F (tags); planes 15 and 16 (private use)
NeverPrintable(r) ==
  \/ r = 888 \/ r = 889
  \/ r = 5760 \/ r = 6158
  \/ (r >= 8192 /\ r <= 8207)
  \/ (r >= 8232 /\ r <= 8239)
  \/ (r >= 8287 /\ r <= 8292)
  \/ r = 12288
  \/ (r >= 57344 /\ r <= 63743)
  \/ (r >= 64976 /\ r <= 65007)
  \/ r = 65279
  \/ r % 65536 >= 65534
  \/ r = 917505 \/ (r >= 917536 /\ r <= 917631)
  \/ r >= 983040

\* code points above U+00FF that strconv.IsPrint accepts in every release:
\* U+0100-U+024F (Latin Extended-A and -B), U+0400-U+0481 (Cyrillic),
\* U+2010-U+2027 (punctuation), U+20AC, U+3041-U+3096 (Hiragana),
\* U+4E00-U+9FA5 (CJK), U+AC00-U+D7A3 (Hangul), U+FFFD
AlwaysPrintable(r) ==
  \/ (r >= 256 /\ r <= 591)
  \/ (r >= 1024 /\ r <= 1153)
  \/ (r >= 8208 /\ r <= 8231)
  \/ r = 8364
  \/ (r >= 12353 /\ r <= 12438)
  \/ (r >= 19968 /\ r <= 40869)
  \/ (r >= 44032 /\ r <= 55203)
  \/ r = 65533

\* the code points of s that are neither: the tables of strconv.IsPrint,
\* made from the Unicode version of the Go release, decide for them
OpenRunes(s) ==
  {r \in {RuneAt(s, i, UTF8Width(s, i)) :
            i \in {j \in 1..Len(s) : UTF8Width(s, j) >= 2 /\ ~InRune(s, j)}} :
     r > 255 /\ ~NeverPrintable(r) /\ ~AlwaysPrintable(r)}

\* what differs in strconv.Quote among Go releases, for the text s: DEL is
\* written \x7f (del7f) or \u007f, and printable holds the code points of
\* OpenRunes(s) that IsPrint accepts
QuoteLibs(s) == [del7f : BOOLEAN, printable : SUBSET OpenRunes(s)]

\* !strconv.IsPrint(r), or r is a double quote or a backslash
NeedsEscape(r, lib) ==
  IF r < 128 THEN r < 32 \/ r = 127 \/ r = 34 \/ r = 92
  ELSE IF r <= 255 THEN r < 161 \/ r = 173
  ELSE IF NeverPrintable(r) THEN TRUE
  ELSE IF AlwaysPrintable(r) THEN FALSE
  ELSE r \notin lib.printable

\* what strconv.Quote writes for the character that starts at position i of
\* s; nothing at the later bytes of a multi-byte character
QuoteAt(s, i, lib) ==
  LET w == UTF8Width(s, i)
      r == RuneAt(s, i, w)
  IN IF InRune(s, i) THEN <<>>
     ELSE IF w = 0 THEN HexEscape(s[i])
     ELSE IF ~NeedsEscape(r, lib) THEN Slice(s, i - 1, i - 1 + w)
     ELSE IF r = 34 \/ r = 92 THEN <<92, r>>
     ELSE IF r >= 7 /\ r <= 13 THEN <<92, EscapeLetters[r - 6]>>
     ELSE IF r < 32 \/ (r = 127 /\ lib.del7f) THEN HexEscape(r)
     ELSE UnicodeEscape(r)

\* the position in strconv.Quote(s), counted from the opening quote as 0,
\* of the last byte written for the character at position i of s
OutPos(s, i, lib) == Len(Flat([j \in 1..i |-> QuoteAt(s, j, lib)], 1, i))

QuoteBody(s, lib) == Flat([j \in 1..Len(s) |-> QuoteAt(s, j, lib)], 1, Len(s))

\* strconv.Quote(s)
Quote(s, lib) == <<34>> \o QuoteBody(s, lib) \o <<34>>

\* the number of backslashes that stand right before character i
BackslashRun(s, i) ==
  Cardinality({k \in 1..(i - 1) : \A j \in (i - k)..(i - 1) : s[j] = 92})

\* a backslash that starts an escape: those of a run pair up from its left
StartsEscape(s, i) == s[i] = 92 /\ BackslashRun(s, i) % 2 = 0

\* the length of the escape whose backslash is at i, by its second character
EscapeLen(s, i) ==
  LET c == ByteAt(s, i + 1)
  IN IF c = 120 THEN 4
     ELSE IF c = 117 THEN 6
     ELSE IF c = 85 THEN 10
     ELSE IF c >= 48 /\ c <= 55 THEN 4
     ELSE 2

\* position i is a later character of an escape
Escaped(s, i) ==
  \E j \in (i - 9)..(i - 1) : j >= 1 /\ StartsEscape(s, j) /\ EscapeLen(s, j) > i - j

\* the value of the hex digits at positions lo..hi of s, -1 when one of them
\* is no hex digit or lies beyond s
RECURSIVE HexValue(_, _, _)
HexValue(s, lo, hi) ==
  IF lo > hi THEN 0
  ELSE LET d == IF hi <= Len(s) THEN fromHexChar(s[hi]) ELSE -1
           rest == HexValue(s, lo, hi - 1)
       IN IF d < 0 \/ rest < 0 THEN -1 ELSE rest * 16 + d

\* the value of the three octal digits at i, i+1, i+2, -1 when they are none
OctalValue(s, i) ==
  IF \A k \in i..(i + 2) : ByteAt(s, k) >= 48 /\ ByteAt(s, k) <= 55
  THEN (s[i] - 48) * 64 + (s[i + 1] - 48) * 8 + (s[i + 2] - 48)
  ELSE -1

\* strconv.UnquoteChar at an escape of a literal quoted with quote: the bytes
\* it stands for, <<-1>> when it is a syntax error
UnquoteEscape(s, i, quote) ==
  LET c == ByteAt(s, i + 1)
      bad == <<-1>>
  IN IF i + 1 > Len(s) THEN bad
     ELSE IF c = 97 THEN <<7>>
     ELSE IF c = 98 THEN <<8>>
     ELSE IF c = 102 THEN <<12>>
     ELSE IF c = 110 THEN <<10>>
     ELSE IF c = 114 THEN <<13>>
     ELSE IF c = 116 THEN <<9>>
     ELSE IF c = 118 THEN <<11>>
     ELSE IF c = 92 THEN <<92>>
     ELSE IF c = 34 \/ c = 39 THEN (IF c = quote THEN <<c>> ELSE bad)
     ELSE IF c = 120
          THEN (IF HexValue(s, i + 2, i + 3) < 0 THEN bad
                ELSE <<HexValue(s, i + 2, i + 3)>>)
     ELSE IF c = 117
          THEN (LET v == HexValue(s, i + 2, i + 5)
                IN IF v < 0 \/ (v >= 55296 /\ v <= 57343) THEN bad
                   ELSE EncodeRune(v))
     ELSE IF c = 85
          THEN (LET hi2 == HexValue(s, i + 2, i + 3)
                    v == HexValue(s, i + 4, i + 9)
                IN IF hi2 # 0 \/ v < 0 \/ v > 1114111
                      \/ (v >= 55296 /\ v <= 57343) THEN bad
                   ELSE EncodeRune(v))
     ELSE IF c >= 48 /\ c <= 55
          THEN (IF OctalValue(s, i + 1) < 0 \/ OctalValue(s, i + 1) > 255 THEN bad
                ELSE <<OctalValue(s, i + 1)>>)
     ELSE bad

\* what the character or escape that starts at position i of the body s
\* stands for; nothing at the later bytes of a character or of an escape; an
\* invalid byte stands for U+FFFD; a bare quote is a syntax error
UnquoteAt(s, i, quote) ==
  IF Escaped(s, i) \/ InRune(s, i) THEN <<>>
  ELSE IF StartsEscape(s, i) THEN UnquoteEscape(s, i, quote)
  ELSE IF s[i] = quote \/ s[i] = 10 THEN <<-1>>
  ELSE IF UTF8Width(s, i) = 0 THEN <<239, 191, 189>>
  ELSE Slice(s, i - 1, i - 1 + UTF8Width(s, i))

\* the body of a literal quoted with " or ': ok is FALSE at a bare quote, a
\* newline or an invalid escape, and for ' when the body holds more than one
\* character
UnquoteBody(s, quote) ==
  LET toks == [i \in 1..Len(s) |-> UnquoteAt(s, i, quote)]
      starts == {i \in 1..Len(s) : ~Escaped(s, i) /\ ~InRune(s, i)}
      ok == /\ \A i \in 1..Len(s) : toks[i] # <<-1>>
            /\ quote = 39 => Cardinality(starts) <= 1
  IN IF ok THEN [ok |-> TRUE, str |-> Flat(toks, 1, Len(s))]
     ELSE [ok |-> FALSE, str |-> <<>>]

\* strconv.Unquote(s): a literal in double quotes gives its text with the
\* escapes undone; a back-quoted literal gives its text as it stands, less
\* its carriage returns; a literal in single quotes holds at most one
\* character; anything else is ErrSyntax
Unquote(s) ==
  LET n == Len(s)
      quote == s[1]
      body == Slice(s, 1, n - 1)
  IN IF n < 2 THEN [ok |-> FALSE, str |-> <<>>]
     ELSE IF quote # s[n] THEN [ok |-> FALSE, str |-> <<>>]
     ELSE IF quote = 96
          THEN IF \E i \in 1..Len(body) : body[i] = 96
               THEN [ok |-> FALSE, str |-> <<>>]
               ELSE [ok |-> TRUE, str |-> SelectSeq(body, LAMBDA c : c # 13)]
     ELSE IF quote = 34 \/ quote = 39 THEN UnquoteBody(body, quote)
     ELSE [ok |-> FALSE, str |-> <<>>]

\* MarshalJSON without the quotes
MarshalJSONBare(x, lib) ==
  [out |-> String(x), null |-> FALSE, status |-> "ok", err |-> ""]

\* (u UUID) MarshalJSON() ([]byte, error)
MarshalJSON(x, lib) ==
  [out |-> Quote(String(x), lib), null |-> FALSE, status |-> "ok", err |-> ""]

\* the literal null
JSONNull == <<110, 117, 108, 108>>

\* (u *UUID) UnmarshalJSON(b []byte) error
UnmarshalJSON(x, b) ==
  IF b = JSONNull THEN Decoded(x, "ok", "", "")
  ELSE LET q == Unquote(b)
           r == FromString(q.str)
       IN IF ~q.ok
          THEN Decoded(x, "error", "invalid json value for uuid (must be string or null): ", "")
          ELSE IF r.status # "ok" THEN Decoded(x, r.status, r.err, "")
          ELSE Decoded(r.val, "ok", "", "")

\* (u *UUID) UnmarshalBinary(data []byte) error
UnmarshalBinary(x, data) == UnmarshalText(x, data)

\* (u UUID) MarshalBinary() (data []byte, err error)
MarshalBinary(x) == MarshalText(x)

\* src[:n] of the loop of Value: the next n bytes at offset off of
\* []byte(u); past len(u) the array holds zero bytes
Group(x, off, n) == [i \in 1..n |-> IF off + i <= Len(x) THEN x[off + i] ELSE 0]

\* offsets of the five groups in the canonical text: the groups before it
\* and one dash for each
RECURSIVE GroupOffset(_)
GroupOffset(i) == IF i = 1 THEN 0 ELSE GroupOffset(i - 1) + byteGroups[i - 1] + 1

\* (u UUID) Value() (driver.Value, error); c is cap([]byte(u)), which the
\* allocator chooses, at least len(u).  u[8], u[13], u[18] and u[23] are
\* read in this order, stopping at the first that is no dash; an index at
\* or past len(u) panics.  In the loop, src[:byteGroup] panics when it
\* passes the capacity.
ValueRes(out, null, status, err) == [out |-> out, null |-> null, status |-> status, err |-> err]

RECURSIVE DashCheck(_, _)
DashCheck(x, idx) ==
  IF idx = <<>> THEN "ok"
  ELSE IF Head(idx) >= Len(x) THEN "panic"
  ELSE IF At(x, Head(idx)) # 45 THEN "error"
  ELSE DashCheck(x, Tail(idx))

RECURSIVE DecodeGroups(_, _, _)
DecodeGroups(x, c, i) ==
  IF i > Len(byteGroups) THEN ValueRes(<<>>, FALSE, "ok", "")
  ELSE LET off == GroupOffset(i)
           g == Group(x, off, byteGroups[i])
           rest == DecodeGroups(x, c, i + 1)
       IN IF off > Len(x) \/ off + byteGroups[i] > c
          THEN ValueRes(<<>>, FALSE, "panic", "slice bounds out of range")
          ELSE IF HexDecodeErr(g) # ""
               THEN ValueRes(<<>>, FALSE, "error", HexDecodeErr(g))
          ELSE IF rest.status # "ok" THEN rest
          ELSE ValueRes(HexDecodeBytes(g) \o rest.out, FALSE, "ok", "")

Value(x, c) ==
  IF x = Nil THEN ValueRes(<<>>, TRUE, "ok", "")
  ELSE LET chk == DashCheck(x, <<8, 13, 18, 23>>)
       IN IF chk = "panic" THEN ValueRes(<<>>, FALSE, "panic", "index out of range")
          ELSE IF chk = "error"
               THEN ValueRes(<<>>, FALSE, "error", "uuid: incorrect UUID format ")
          ELSE DecodeGroups(x, c, 1)

\* Scan keeping the encoded bytes without FromString
ScanUnvalidated(x, src) ==
  IF src.kind = "nil" THEN Decoded(Nil, "ok", "", "")
  ELSE IF src.kind = "[]uint8" /\ Len(src.data) = size
       THEN Decoded(encodeBytes(src.data), "ok", "", "")
  ELSE Decoded(x, "error", "uuid: cannot convert ", src.kind)

\* (u *UUID) Scan(src interface{}) error; src is its dynamic type and, for
\* a []byte or a string, its bytes
Scan(x, src) ==
  IF src.kind = "nil" THEN Decoded(Nil, "ok", "", "")
  ELSE IF src.kind = "[]uint8" /\ Len(src.data) = size
       THEN LET r == FromString(encodeBytes(src.data))
            IN Decoded(r.val, r.status, r.err, "")
  ELSE Decoded(x, "error", "uuid: cannot convert ", src.kind)

(***************************************************************************)
(* Inputs                                                                  *)
(***************************************************************************)
\* s with the byte at 0-based index i replaced by c
SetAt(s, i, c) == [k \in 1..Len(s) |-> IF k = i + 1 THEN c ELSE s[k]]

\* afe40693-8f63-4766-85f1-250a427f1db5 and 43ae2f25-802d-4aae-be57-b7acefe336ac
\* of the tests
BytesA == <<175, 228, 6, 147, 143, 99, 71, 102, 133, 241, 37, 10, 66, 127, 29, 181>>
BytesB == <<67, 174, 47, 37, 128, 45, 74, 174, 190, 87, 183, 172, 239, 227, 54, 172>>
\* ffffffff-ffff-5fff-bfff-ffffffffffff: version 5, the largest payload
BytesF == <<255, 255, 255, 255, 255, 255, 95, 255, 191, 255, 255, 255, 255, 255, 255, 255>>
\* 00000000-0000-1000-9000-000000000000: version 1, the smallest payload
BytesL == <<0, 0, 0, 0, 0, 0, 16, 0, 144, 0, 0, 0, 0, 0, 0, 0>>
\* d33a89a0-a06d-3e7c-a1c7-b85509f90000: version 3
BytesC == <<211, 58, 137, 160, 160, 109, 62, 124, 161, 199, 184, 85, 9, 249, 0, 0>>

StrA == encodeBytes(BytesA)

\* canonical texts FromString accepts, in lower, upper and mixed case
GoodStrings ==
  {StrA, ToUpper(StrA), SetAt(StrA, 0, 65), encodeBytes(BytesB),
   encodeBytes(BytesF), ToUpper(encodeBytes(BytesF)), encodeBytes(BytesL),
   encodeBytes(BytesC)}

\* the two texts of the nil UUID
NilStrings == {<<>>, ZeroUUIDString}

\* texts FromString rejects: "asda", a letter g, the hash-like form,
\* version 6, version 0, variant 1, variant c, one character too many and
\* too few, a dash moved, a dash for a digit, upper case of a rejected text
BadStrings ==
  {<<97, 115, 100, 97>>, SetAt(StrA, 0, 103), HashLike(StrA),
   SetAt(StrA, 14, 54), SetAt(StrA, 14, 48), SetAt(StrA, 19, 49),
   SetAt(StrA, 19, 67), StrA \o <<53>>, Slice(StrA, 0, 35),
   SetAt(SetAt(StrA, 8, 48), 9, 45), SetAt(StrA, 35, 45),
   SetAt(ZeroUUIDString, 35, 49), StrA \o <<10>>}

TextInputs == GoodStrings \cup NilStrings \cup BadStrings

\* hash-like inputs: the texts above without their dashes where they have
\* them, and texts of other lengths
HashInputs ==
  {HashLike(s) : s \in GoodStrings} \cup {<<>>, ZeroHashString}
  \cup {HashLike(s) : s \in {x \in BadStrings : Len(x) = 36}}
  \cup {<<97, 115, 100, 97>>, StrA, HashLike(StrA) \o <<49>>}

\* JSON strings with escapes, and literals in other quotes: the first
\* character of the UUID written \u0061, \x61, \141 and \U00000061; "\t";
\* "\q"; "\ud800"; the UUID with a raw tab after it; '', 'a', '\'' and 'ab';
\* the UUID in back quotes
EscapedJSONInputs ==
  {<<34, 92, 117, 48, 48, 54, 49>> \o Tail(StrA) \o <<34>>,
   <<34, 92, 120, 54, 49>> \o Tail(StrA) \o <<34>>,
   <<34, 92, 49, 52, 49>> \o Tail(StrA) \o <<34>>,
   <<34, 92, 85, 48, 48, 48, 48, 48, 48, 54, 49>> \o Tail(StrA) \o <<34>>,
   <<34, 92, 116, 34>>, <<34, 92, 113, 34>>,
   <<34, 92, 117, 100, 56, 48, 48, 34>>,
   <<34>> \o StrA \o <<9, 34>>,
   <<39, 39>>, <<39, 97, 39>>, <<39, 92, 39, 39>>, <<39, 97, 98, 39>>,
   <<96>> \o StrA \o <<96>>}

\* JSON inputs: quoted texts, null and other literals
JSONInputs ==
  UNION {{Quote(s, lib) : lib \in QuoteLibs(s)} : s \in TextInputs}
  \cup {JSONNull, <<49, 50, 51>>, <<116, 114, 117, 101>>, <<34>>, <<>>,
        <<123, 125>>, <<34>> \o StrA}
  \cup EscapedJSONInputs

\* what the random source delivers: 16 bytes, or nothing when it fails
RandPattern == [i \in 1..16 |-> 16 * i - 1]

RandInputs == {Rep(16, 0), Rep(16, 255), RandPattern, <<>>}

\* the other operand of XOR: Nil and UUIDs of versions 4, 5 and 1
XorOperands ==
  {Nil} \cup {FromString(encodeBytes(b)).val : b \in {BytesA, BytesF, BytesL}}

\* 64-bit numbers
U64(lo6) == <<0, 0>> \o lo6

\* milliseconds: 0, 100, 999, 1000, 1569479272, 9999999999,
\* 99999999999999, 2^48-1, 2^48 and 2^64-1
MsInputs ==
  {U64(<<0, 0, 0, 0, 0, 0>>), U64(<<0, 0, 0, 0, 0, 100>>),
   U64(<<0, 0, 0, 0, 3, 231>>), U64(<<0, 0, 0, 0, 3, 232>>),
   U64(<<0, 0, 93, 140, 90, 104>>), U64(<<0, 2, 84, 11, 227, 255>>),
   U64(<<90, 243, 16, 122, 63, 255>>), U64(<<255, 255, 255, 255, 255, 255>>),
   <<0, 1, 0, 0, 0, 0, 0, 0>>, Rep(8, 255)}

\* instants: those of Time(ms), one with a fraction of a millisecond, one
\* second before the epoch
TimeInputs ==
  {Time(ms) : ms \in MsInputs}
  \cup {[unix |-> U64(<<0, 0, 93, 140, 90, 104>>), nsec |-> 1999999],
        [unix |-> Rep(8, 255), nsec |-> 0]}

\* arguments of Scan: NULL, byte slices of 16 and of other lengths, a
\* string, a pointer to a UUID
ScanInputs ==
  {[kind |-> "nil", data |-> <<>>]}
  \cup {[kind |-> "[]uint8", data |-> b] :
          b \in {BytesA, BytesB, BytesF, BytesL, Rep(16, 0), Rep(16, 255),
                 SetAt(BytesA, 6, 6), SetAt(BytesA, 8, 193),
                 Slice(BytesA, 0, 15), BytesA \o <<0>>, <<>>, StrA}}
  \cup {[kind |-> "string", data |-> StrA],
        [kind |-> "*uuid.UUID", data |-> <<>>]}

\* capacities the allocator may give []byte(s): len(s) itself, the 32-byte
\* buffer of a conversion that does not escape, or the next size class
SizeClasses == {8, 16, 24, 32, 48, 64, 80, 96}

Caps(s) ==
  {Len(s)} \cup (IF Len(s) <= 32 THEN {32} ELSE {})
  \cup {c \in SizeClasses : c >= Len(s) /\ \A d \in SizeClasses : d >= Len(s) => c <= d}

(***************************************************************************)
(* The state: a UUID variable u of a caller, the number of derivations     *)
(* (Next, XOR) that gave its value, the last call made, and the values a   *)
(* run of Next calls has returned                                          *)
(***************************************************************************)
MaxDerive == 2

NoTime == [unix |-> Rep(8, 0), nsec |-> 0]

NoCall ==
  [op |-> "init", recv |-> Nil, other |-> Nil, arg |-> <<>>, kind |-> "",
   t |-> NoTime, val |-> Nil, out |-> <<>>, null |-> FALSE, tm |-> NoTime,
   status |-> "ok", err |-> "", typ |-> ""]

Init ==
  /\ u = Nil
  /\ derived = 0
  /\ last = NoCall
  /\ chain = <<>>

\* one call: the caller's variable afterwards and the record of the call
Step(newU, call) ==
  /\ last = NoCall
  /\ u' = newU
  /\ derived' = IF newU = u THEN derived ELSE 0
  /\ last' = call
  /\ UNCHANGED chain

\* one derivation: u is replaced by what Next or XOR returned
Derive(r, call) ==
  /\ last = NoCall
  /\ derived < MaxDerive
  /\ derived' = derived + 1
  /\ u' = IF r.status = "panic" THEN u ELSE r.val
  /\ last' = [call EXCEPT !.val = r.val, !.status = r.status, !.err = r.err]
  /\ UNCHANGED chain

Call(op, arg) == [NoCall EXCEPT !.op = op, !.recv = u, !.arg = arg]

\* a call that returns (UUID, error), or panics: the caller keeps what is
\* returned in u
Returned(call, r) ==
  Step(IF r.status = "panic" THEN u ELSE r.val,
       [call EXCEPT !.val = r.val, !.status = r.status, !.err = r.err])

\* a call of a decoder on &u
DecodedInto(call, r) ==
  Step(r.u,
       [call EXCEPT !.val = r.u, !.status = r.status, !.err = r.err, !.typ = r.typ])

\* a call of an encoder on u
Encoded(call, r) ==
  Step(u,
       [call EXCEPT !.val = u, !.out = r.out, !.null = r.null,
                    !.status = r.status, !.err = r.err])

FromStringOp == \E s \in TextInputs : Returned(Call("FromString", s), FromString(s))

FromHashLikeOp ==
  \E s \in HashInputs : Returned(Call("FromHashLike", s), FromHashLike(s))

NewV4Op == \E r \in RandInputs : Returned(Call("NewV4", r), NewV4(r))

\* NewTime reads 10 bytes of the random source
NewTimeOp ==
  \E t \in TimeInputs, r \in RandInputs \ {RandPattern} :
    LET r10 == IF Len(r) < 10 THEN r ELSE Slice(r, 0, 10)
    IN Returned([Call("NewTime", r10) EXCEPT !.t = t], NewTime(t, r10))

NextOp == \E lib \in HexLibs : Derive(Next(u, lib), Call("Next", <<>>))

\* u.XOR(w) and w.XOR(u) for another UUID w
XOROp ==
  \E w \in XorOperands :
    \/ Derive(XOR(u, w), [Call("XOR", <<>>) EXCEPT !.other = w])
    \/ Derive(XOR(w, u), [Call("XOR", <<>>) EXCEPT !.recv = w, !.other = u])

UnmarshalTextOp ==
  \E s \in TextInputs : DecodedInto(Call("UnmarshalText", s), UnmarshalText(u, s))

UnmarshalBinaryOp ==
  \E s \in TextInputs : DecodedInto(Call("UnmarshalBinary", s), UnmarshalBinary(u, s))

UnmarshalJSONOp ==
  \E s \in JSONInputs : DecodedInto(Call("UnmarshalJSON", s), UnmarshalJSON(u, s))

ScanOp ==
  \E src \in ScanInputs :
    DecodedInto([Call("Scan", src.data) EXCEPT !.kind = src.kind], Scan(u, src))

MarshalTextOp == Encoded(Call("MarshalText", <<>>), MarshalText(u))

MarshalBinaryOp == Encoded(Call("MarshalBinary", <<>>), MarshalBinary(u))

MarshalJSONOp ==
  \E lib \in QuoteLibs(u) : Encoded(Call("MarshalJSON", <<>>), MarshalJSON(u, lib))

ValueOp ==
  \E c \in Caps(u) : Encoded([Call("Value", <<>>) EXCEPT !.kind = "cap"], Value(u, c))

HashLikeOp ==
  Encoded(Call("HashLike", <<>>),
          IF HashLikePanics(u)
          THEN ValueRes(<<>>, FALSE, "panic", "slice bounds out of range")
          ELSE ValueRes(HashLike(u), FALSE, "ok", ""))

TimeUUIDToTimeOp ==
  LET r == TimeUUIDToTime(u)
  IN Encoded([Call("TimeUUIDToTime", <<>>) EXCEPT !.tm = r.t],
             ValueRes(<<>>, FALSE, r.status, r.err))

\* the caller is done with what the last call returned
DoneOp ==
  /\ last # NoCall
  /\ last' = NoCall
  /\ UNCHANGED <<u, derived, chain>>

NextState ==
  \/ FromStringOp
  \/ FromHashLikeOp
  \/ NewV4Op
  \/ NewTimeOp
  \/ NextOp
  \/ XOROp
  \/ UnmarshalTextOp
  \/ UnmarshalBinaryOp
  \/ UnmarshalJSONOp
  \/ ScanOp
  \/ MarshalTextOp
  \/ MarshalBinaryOp
  \/ MarshalJSONOp
  \/ ValueOp
  \/ HashLikeOp
  \/ TimeUUIDToTimeOp
  \/ DoneOp

Spec == Init /\ [][NextState]_vars

(***************************************************************************)
(* Runs of Next: u1 = Next(u0), u2 = Next(u1), ... from a UUID the         *)
(* constructors return                                                     *)
(***************************************************************************)
MaxChain == 12

Seeds ==
  {FromString(s).val : s \in GoodStrings}
  \cup {NewV4(r).val : r \in RandInputs \ {<<>>}}
  \cup {NewTime(Time(ms), Slice(r, 0, 10)).val :
          ms \in {m \in MsInputs : ~Greater(m, maxTime)},
          r \in {Rep(16, 0), Rep(16, 255)}}

InitNext ==
  /\ u \in Seeds
  /\ derived = 0
  /\ last = NoCall
  /\ chain = <<u>>

\* uid, err = uid.Next(), as in TestNext
NextStep ==
  /\ Len(chain) <= MaxChain
  /\ \E lib \in HexLibs :
       LET r == Next(u, lib)
       IN /\ u' = r.val
          /\ chain' = Append(chain, r.val)
          /\ last' = [Call("Next", <<>>) EXCEPT !.val = r.val,
                                               !.status = r.status,
                                               !.err = r.err]
  /\ UNCHANGED derived

SpecNext == InitNext /\ [][NextStep]_vars

(***************************************************************************)
(* Callers that convert any string to a UUID, as UUID(orig) in TestSql     *)
(***************************************************************************)
\* "asda"; a letter g; one and two characters too many; the first 24
\* characters; the hash-like form; "afe40693-"; a digit for the dash at 13;
\* DEL, U+2028 and U+0250
RawStrings ==
  {<<97, 115, 100, 97>>, SetAt(StrA, 0, 103), StrA \o <<53>>,
   StrA \o <<53, 97>>, Slice(StrA, 0, 24), HashLike(StrA),
   Slice(StrA, 0, 9), SetAt(StrA, 13, 48),
   <<127, 226, 128, 168, 201, 144>>}

\* u = UUID(s)
CastOp ==
  \E s \in RawStrings : Step(s, [Call("UUID", s) EXCEPT !.val = s])

\* u.XOR(w) and w.XOR(u) for such a w
XORRawOp ==
  \E w \in RawStrings :
    \/ Derive(XOR(u, w), [Call("XOR", <<>>) EXCEPT !.other = w])
    \/ Derive(XOR(w, u), [Call("XOR", <<>>) EXCEPT !.recv = w, !.other = u])

NextRaw ==
  \/ NextState
  \/ CastOp
  \/ XORRawOp

SpecRaw == Init /\ [][NextRaw]_vars

(***************************************************************************)
(* Vocabulary of the properties                                            *)
(***************************************************************************)
LowerHexChars == (48..57) \cup (97..102)
AnyCaseHexChars == LowerHexChars \cup (65..70)
DashIndexes == {8, 13, 18, 23}

\* the canonical form: 36 characters, dashes at 8, 13, 18 and 23, version
\* character 1..5 at 14, variant character 8, 9, a or b at 19, lower-case
\* hex digits elsewhere
Canonical(x) ==
  /\ Len(x) = 36
  /\ \A i \in DashIndexes : At(x, i) = 45
  /\ At(x, 14) \in 49..53
  /\ At(x, 19) \in {56, 57, 97, 98}
  /\ \A i \in (0..35) \ DashIndexes : At(x, i) \in LowerHexChars

\* the canonical pattern, letters in either case
CanonicalAnyCase(x) ==
  /\ Len(x) = 36
  /\ \A i \in DashIndexes : At(x, i) = 45
  /\ At(x, 14) \in 49..53
  /\ At(x, 19) \in {56, 57, 97, 98, 65, 66}
  /\ \A i \in (0..35) \ DashIndexes : At(x, i) \in AnyCaseHexChars

\* the error kinds of the specification, by message
InvalidFormat(msg) ==
  msg \in {"invalid uuid: ", "invalid left side parameter: ",
           "invalid right side parameter: ",
           "invalid json value for uuid (must be string or null): ",
           "uuid: incorrect UUID format ", "encoding/hex: invalid byte",
           "encoding/hex: odd length hex string"}

UnsupportedType(msg) == msg = "uuid: cannot convert "

\* the calls that hand a UUID value to the caller
ValueOps ==
  {"FromString", "FromHashLike", "NewV4", "NewTime", "Next", "XOR", "Scan",
   "UnmarshalText", "UnmarshalJSON", "UnmarshalBinary"}

\* the 16 bytes a canonical text writes
BytesOf(x) == HexDecodeBytes(HashLike(x))

(***************************************************************************)
(* C1: every UUID value obtained without error from FromString,            *)
(* FromHashLike, NewV4, NewTime, Scan, the Unmarshal methods, and from     *)
(* Next and XOR applied to such values, is Nil or in canonical form; the   *)
(* all-zero text is never produced.                                        *)
(***************************************************************************)
C1_CanonicalForm ==
  /\ u = Nil \/ Canonical(u)
  /\ u # ZeroUUIDString
  /\ (last.op \in ValueOps /\ last.status = "ok")
       => /\ last.val = Nil \/ Canonical(last.val)
          /\ last.val # ZeroUUIDString

\* a value derived twice, last by XOR, from a generated one
C1_Witness ==
  /\ last.op = "XOR" /\ last.status = "ok"
  /\ derived = 2
  /\ u # Nil /\ u = last.val

(***************************************************************************)
(* C2: FromString(s) returns Nil and no error for the empty text and the   *)
(* all-zero text; otherwise it succeeds exactly when s has the canonical   *)
(* pattern in either letter case, and returns s in lower case; every       *)
(* other text gives an InvalidFormat error and Nil.                        *)
(***************************************************************************)
C2_FromString ==
  last.op = "FromString" =>
    LET s == last.arg
    IN IF s = <<>> \/ s = ZeroUUIDString
       THEN last.status = "ok" /\ last.val = Nil
       ELSE IF CanonicalAnyCase(s)
            THEN /\ last.status = "ok"
                 /\ Len(last.val) = Len(s)
                 /\ \A i \in 1..Len(s) :
                      last.val[i] = IF s[i] \in 65..70 THEN s[i] + 32 ELSE s[i]
            ELSE /\ last.status = "error"
                 /\ InvalidFormat(last.err)
                 /\ last.val = Nil

\* an upper-case text was accepted and returned in lower case
C2_Witness ==
  /\ last.op = "FromString" /\ last.status = "ok"
  /\ \E i \in 1..Len(last.arg) : last.arg[i] \in 65..70
  /\ last.val # last.arg /\ Canonical(last.val)

(***************************************************************************)
(* C3: XOR is self-inverse: for distinct non-nil well-formed a and b of    *)
(* any version, a.XOR(b).XOR(a) = b and a.XOR(b).XOR(b) = a.               *)
(***************************************************************************)
C3_XorSelfInverse_AnyVersion ==
  (/\ last.op = "XOR" /\ last.status = "ok"
   /\ Canonical(last.recv) /\ Canonical(last.other)
   /\ last.recv # last.other)
    => /\ XOR(last.val, last.recv).val = last.other
       /\ XOR(last.val, last.other).val = last.recv

\* x with its version character replaced by 4
WithVersion4(x) == SetAt(x, 14, 52)

\* C3 as amended: for non-nil well-formed a and b, a.XOR(b).XOR(a) is b
\* with its version character replaced by 4 and a.XOR(b).XOR(b) is a with
\* its version character replaced by 4; so the round trip returns the
\* operand itself when it has version 4.
C3_XorSelfInverse_Version4 ==
  (/\ last.op = "XOR"
   /\ Canonical(last.recv) /\ Canonical(last.other))
    => /\ last.status = "ok"
       /\ XOR(last.val, last.recv) = Ok(WithVersion4(last.other))
       /\ XOR(last.val, last.other) = Ok(WithVersion4(last.recv))
       /\ At(last.other, 14) = 52 => XOR(last.val, last.recv).val = last.other
       /\ At(last.recv, 14) = 52 => XOR(last.val, last.other).val = last.recv

\* two distinct version 4 UUIDs were combined
C3_Witness ==
  /\ last.op = "XOR" /\ last.status = "ok"
  /\ Canonical(last.recv) /\ Canonical(last.other)
  /\ last.recv # last.other
  /\ At(last.recv, 14) = 52 /\ At(last.other, 14) = 52
  /\ XOR(last.val, last.recv).val = last.other

(***************************************************************************)
(* C4: for a non-nil well-formed u, the 14 bytes at positions 0-5, 7 and   *)
(* 9-15 of Next(u), read as a big-endian number, are those of u plus       *)
(* 908070605040302010203040506070809 modulo 2^112, and bytes 6 and 8 are   *)
(* those of u; Next(Nil) is Nil with no error.                             *)
(***************************************************************************)
\* the bytes at positions 0-5, 7 and 9-15 of 16 bytes
Payload14(b) ==
  [i \in 1..14 |-> b[IF i <= 6 THEN i ELSE IF i = 7 THEN 8 ELSE i + 2]]

\* 14 bytes as 7 digits of base 65536
Limbs(p) == [k \in 1..7 |-> p[2 * k - 1] * 256 + p[2 * k]]

\* 908070605040302010203040506070809 in base 65536
AddendLimbs == <<11461, 30303, 20882, 6200, 10126, 43766, 18201>>

RECURSIVE CarryInto(_, _, _)
CarryInto(x, y, k) ==
  IF k = 7 THEN 0
  ELSE (x[k + 1] + y[k + 1] + CarryInto(x, y, k + 1)) \div 65536

\* x + y modulo 65536^7
SumLimbs(x, y) == [k \in 1..7 |-> (x[k] + y[k] + CarryInto(x, y, k)) % 65536]

C4_NextAddsConstant ==
  /\ Limbs(bigPrime) = AddendLimbs
  /\ last.op = "Next" =>
       IF last.recv = Nil THEN last.status = "ok" /\ last.val = Nil
       ELSE Canonical(last.recv) =>
              /\ last.status = "ok"
              /\ Canonical(last.val)
              /\ Limbs(Payload14(BytesOf(last.val)))
                   = SumLimbs(Limbs(Payload14(BytesOf(last.recv))), AddendLimbs)
              /\ BytesOf(last.val)[7] = BytesOf(last.recv)[7]
              /\ BytesOf(last.val)[9] = BytesOf(last.recv)[9]

\* a sum that passed 2^112 and was cut
C4_Witness ==
  /\ last.op = "Next" /\ last.status = "ok" /\ Canonical(last.recv)
  /\ Payload14(BytesOf(last.recv)) = Rep(14, 255)
  /\ Greater(Payload14(BytesOf(last.recv)), Payload14(BytesOf(last.val)))

(***************************************************************************)
(* C5: iterating Next from a non-nil well-formed UUID, every value is      *)
(* accepted unchanged by FromString, calling Next again on a value of the  *)
(* run returns the value that followed it, and no value repeats; the       *)
(* constant added is odd.                                                  *)
(***************************************************************************)
C5_NextRun ==
  /\ bigPrime # <<>> /\ bigPrime[Len(bigPrime)] % 2 = 1
  /\ \A i \in 1..Len(chain) :
       /\ chain[i] # Nil
       /\ FromString(chain[i]) = Ok(chain[i])
  /\ \A i \in 1..(Len(chain) - 1), lib \in HexLibs :
       Next(chain[i], lib) = Ok(chain[i + 1])
  /\ \A i, j \in 1..Len(chain) : i < j => chain[i] # chain[j]

\* a run of twelve calls that started at the largest payload and wrapped
C5_Witness ==
  /\ Len(chain) > 12
  /\ Payload14(BytesOf(chain[1])) = Rep(14, 255)
  /\ last.op = "Next" /\ last.val = chain[Len(chain)]

(***************************************************************************)
(* C6: Next(u) and u.XOR(v) return an InvalidFormat error, and neither     *)
(* crash nor return a UUID, whenever an operand is a non-nil UUID value    *)
(* whose string does not decode to 16 hex bytes.                           *)
(***************************************************************************)
DecodesTo16(x) ==
  /\ Len(x) >= 24
  /\ Len(HashLike(x)) = 32
  /\ HexDecodeErr(HashLike(x)) = ""

Undecodable(x) == x # Nil /\ ~DecodesTo16(x)

\* (XOR with a Nil operand, which returns Nil before decoding anything,
\* is left out)
C6_UndecodableOperandGivesError ==
  /\ (last.op = "Next" /\ Undecodable(last.recv))
       => last.status = "error" /\ InvalidFormat(last.err)
  /\ (/\ last.op = "XOR" /\ last.recv # Nil /\ last.other # Nil
      /\ Undecodable(last.recv) \/ Undecodable(last.other))
       => last.status = "error" /\ InvalidFormat(last.err)

(***************************************************************************)
(* C7: maxTime is 2^48-1; for every ms in 0..2^48-1 and every output of    *)
(* the random source NewTime(Time(ms)) does not panic, bytes 0-5 hold ms   *)
(* big-endian and Timestamp(TimeUUIDToTime(NewTime(Time(ms)))) = ms; for   *)
(* an instant whose Timestamp is larger NewTime panics.                    *)
(***************************************************************************)
\* 2^48-1 as a uint64
MaxMillis == <<0, 0, 255, 255, 255, 255, 255, 255>>

C7_TimeRoundTrip ==
  /\ maxTime = MaxMillis
  /\ (last.op = "NewTime" /\ Len(last.arg) = 10) =>
       /\ \A ms \in MsInputs :
            (last.t = Time(ms) /\ ~Greater(ms, MaxMillis)) =>
              /\ last.status = "ok"
              /\ Slice(BytesOf(last.val), 0, 6) = Slice(ms, 2, 8)
              /\ TimeUUIDToTime(last.val).status = "ok"
              /\ Timestamp(TimeUUIDToTime(last.val).t) = ms
       /\ Greater(Timestamp(last.t), MaxMillis) => last.status = "panic"
       /\ ~Greater(Timestamp(last.t), MaxMillis) =>
            /\ last.status = "ok"
            /\ Timestamp(TimeUUIDToTime(last.val).t) = Timestamp(last.t)

\* the largest instant, with every random bit set
C7_Witness ==
  /\ last.op = "NewTime" /\ last.status = "ok"
  /\ last.t = Time(MaxMillis)
  /\ last.arg = Rep(10, 255)
  /\ Timestamp(TimeUUIDToTime(last.val).t) = MaxMillis

(***************************************************************************)
(* C8: Scan(nil) sets the receiver to Nil; every 16-byte slice is          *)
(* accepted and sets the receiver to the canonical encoding of the bytes   *)
(* (Nil for 16 zero bytes); every other input gives an UnsupportedType     *)
(* error naming the type.                                                  *)
(***************************************************************************)
C8_ScanAcceptsEvery16Bytes ==
  last.op = "Scan" =>
    IF last.kind = "nil" THEN last.status = "ok" /\ last.val = Nil
    ELSE IF last.kind = "[]uint8" /\ Len(last.arg) = 16
         THEN /\ last.status = "ok"
              /\ last.val = IF last.arg = Rep(16, 0) THEN Nil
                            ELSE encodeBytes(last.arg)
         ELSE /\ last.status = "error"
              /\ UnsupportedType(last.err)
              /\ last.typ = last.kind

\* C8 as amended: a 16-byte slice is accepted when its encoding is the
\* all-zero text (the receiver becomes Nil) or has the canonical pattern
\* (the receiver becomes that text); for any other 16-byte slice Scan
\* returns an InvalidFormat error and sets the receiver to Nil.  NULL and
\* the inputs of other types or lengths are as claimed, and those leave
\* the receiver as it was.
C8_ScanValidates16Bytes ==
  last.op = "Scan" =>
    IF last.kind = "nil" THEN last.status = "ok" /\ last.val = Nil
    ELSE IF last.kind = "[]uint8" /\ Len(last.arg) = 16
         THEN IF last.arg = Rep(16, 0)
              THEN last.status = "ok" /\ last.val = Nil
              ELSE IF Canonical(encodeBytes(last.arg))
                   THEN last.status = "ok" /\ last.val = encodeBytes(last.arg)
                   ELSE /\ last.status = "error"
                        /\ InvalidFormat(last.err)
                        /\ last.val = Nil
         ELSE /\ last.status = "error"
              /\ UnsupportedType(last.err)
              /\ last.typ = last.kind
              /\ last.val = last.recv

\* 16 bytes whose version is not 1..5 were refused, with a receiver that
\* held a UUID before
C8_Witness ==
  /\ last.op = "Scan" /\ last.kind = "[]uint8" /\ last.arg = Rep(16, 255)
  /\ last.status = "error" /\ last.recv # Nil /\ last.val = Nil

(***************************************************************************)
(* C9: Value() of a non-nil UUID checks the dashes first: for every        *)
(* non-empty string, of any length, with no dash at index 8, 13, 18 or     *)
(* 23, it returns a format error and no driver value, and never crashes;   *)
(* for a well-formed UUID it returns the 16 bytes of the five groups; for  *)
(* Nil it returns NULL.                                                    *)
(***************************************************************************)
MissingDash(x) == \E i \in DashIndexes : i >= Len(x) \/ At(x, i) # 45

C9_ValueChecksDashes ==
  last.op = "Value" =>
    IF last.recv = Nil THEN last.status = "ok" /\ last.null
    ELSE IF MissingDash(last.recv)
         THEN /\ last.status = "error"
              /\ InvalidFormat(last.err)
              /\ last.out = <<>> /\ ~last.null
         ELSE Canonical(last.recv) =>
                /\ last.status = "ok" /\ ~last.null
                /\ last.out = BytesOf(last.recv)

(***************************************************************************)
(* C10: for every UUID u that FromString returns, UnmarshalText of         *)
(* MarshalText(u), UnmarshalBinary of MarshalBinary(u), UnmarshalJSON of   *)
(* MarshalJSON(u), Scan of Value(u) and FromHashLike of u.HashLike() all   *)
(* succeed and give u; for Nil each gives Nil.                             *)
(***************************************************************************)
\* receivers the decoders start from
Receivers == {Nil, encodeBytes(BytesB)}

\* what Value returned, as the argument of Scan
AsScanInput(r) ==
  IF r.null THEN [kind |-> "nil", data |-> <<>>]
  ELSE [kind |-> "[]uint8", data |-> r.out]

C10_RoundTrips ==
  (last.op = "FromString" /\ last.status = "ok") =>
    LET x == last.val
    IN /\ \A r \in Receivers :
            /\ UnmarshalText(r, MarshalText(x).out) = Decoded(x, "ok", "", "")
            /\ UnmarshalBinary(r, MarshalBinary(x).out) = Decoded(x, "ok", "", "")
            /\ \A lib \in QuoteLibs(x) :
                 UnmarshalJSON(r, MarshalJSON(x, lib).out) = Decoded(x, "ok", "", "")
            /\ \A c \in Caps(x) :
                 /\ Value(x, c).status = "ok"
                 /\ Scan(r, AsScanInput(Value(x, c))) = Decoded(x, "ok", "", "")
       /\ ~HashLikePanics(x)
       /\ FromHashLike(HashLike(x)) = Ok(x)

\* an upper-case text went through FromString and came back from JSON and
\* from the database in lower case
C10_Witness ==
  /\ last.op = "FromString" /\ last.status = "ok"
  /\ last.val # Nil /\ last.val # last.arg
  /\ \A lib \in QuoteLibs(last.val) :
       UnmarshalJSON(Nil, MarshalJSON(last.val, lib).out).u = last.val
  /\ Scan(Nil, AsScanInput(Value(last.val, 36))).u = last.val

(***************************************************************************)
(* C11: the UUID returned by NewV4, by NewTime for an accepted instant,    *)
(* and by XOR of two non-nil well-formed operands has the high nibble of   *)
(* byte 6 equal to 4 and the top two bits of byte 8 equal to 10; the low   *)
(* nibble of byte 6, the low six bits of byte 8 and all other bytes are    *)
(* the random bytes (NewV4) or the bytewise XOR of the operands (XOR).     *)
(***************************************************************************)
\* the byte that differs from a in exactly the bits set in b
XorOf(a, b) ==
  CHOOSE c \in 0..255 : \A k \in 0..7 : (Bit(c, k) = Bit(a, k)) <=> (Bit(b, k) = 0)

\* b is raw with the version and the variant stamped on bytes 6 and 8
StampedFrom(b, raw) ==
  /\ Len(b) = 16
  /\ b[7] \div 16 = 4
  /\ b[9] \div 64 = 2
  /\ b[7] % 16 = raw[7] % 16
  /\ b[9] % 64 = raw[9] % 64
  /\ \A i \in (1..16) \ {7, 9} : b[i] = raw[i]

C11_Stamping ==
  /\ (last.op = "NewV4" /\ Len(last.arg) = 16) =>
       /\ last.status = "ok"
       /\ StampedFrom(BytesOf(last.val), last.arg)
  /\ (last.op = "NewTime" /\ last.status = "ok") =>
       /\ BytesOf(last.val)[7] \div 16 = 4
       /\ BytesOf(last.val)[9] \div 64 = 2
       /\ At(last.val, 19) \in {56, 57, 97, 98}
  /\ (last.op = "XOR" /\ Canonical(last.recv) /\ Canonical(last.other)) =>
       /\ last.status = "ok"
       /\ StampedFrom(BytesOf(last.val),
                      [i \in 1..16 |-> XorOf(BytesOf(last.recv)[i],
                                             BytesOf(last.other)[i])])
       /\ At(last.val, 14) = 52
       /\ At(last.val, 19) \in {56, 57, 97, 98}

\* XOR of a version 4 and a version 5 UUID: the nibble 1 of the bytewise
\* XOR was replaced by 4
C11_Witness ==
  /\ last.op = "XOR" /\ last.status = "ok"
  /\ Canonical(last.recv) /\ Canonical(last.other)
  /\ XorOf(BytesOf(last.recv)[7], BytesOf(last.other)[7]) \div 16 = 1
  /\ BytesOf(last.val)[7] \div 16 = 4

(***************************************************************************)
(* C12: XOR is commutative: for all UUIDs a and b that are Nil or          *)
(* well-formed, a.XOR(b) and b.XOR(a) return the same value and the same   *)
(* error status; the result is Nil with no error whenever either operand   *)
(* is Nil.                                                                 *)
(***************************************************************************)
NilOrCanonical(x) == x = Nil \/ Canonical(x)

C12_XorCommutes ==
  (last.op = "XOR" /\ NilOrCanonical(last.recv) /\ NilOrCanonical(last.other)) =>
    /\ XOR(last.other, last.recv).val = last.val
    /\ XOR(last.other, last.recv).status = last.status
    /\ XOR(last.other, last.recv).err = last.err
    /\ (last.recv = Nil \/ last.other = Nil) =>
         last.val = Nil /\ last.status = "ok"

\* two different non-nil operands
C12_Witness ==
  /\ last.op = "XOR" /\ last.status = "ok"
  /\ Canonical(last.recv) /\ Canonical(last.other)
  /\ last.recv # last.other
  /\ BytesOf(last.recv)[1] # BytesOf(last.other)[1]
  /\ last.val # Nil
  /\ XOR(last.other, last.recv).val = last.val

(***************************************************************************)
(* C13: whenever UnmarshalText, UnmarshalBinary, UnmarshalJSON or Scan     *)
(* returns an error, the receiver still holds the value it held before     *)
(* the call.                                                               *)
(***************************************************************************)
Decoders == {"UnmarshalText", "UnmarshalBinary", "UnmarshalJSON", "Scan"}

C13_ReceiverKeptOnError ==
  (last.op \in Decoders /\ last.status = "error") =>
    /\ last.val = last.recv
    /\ u = last.recv

(***************************************************************************)
(* C14: TimeUUIDToTime never crashes on a value FromString or FromHashLike *)
(* can return, Nil included: it returns an instant or an error; for a      *)
(* non-nil value the instant is Time(ms), ms being the big-endian 48-bit   *)
(* integer of bytes 0-5.                                                   *)
(***************************************************************************)
C14_TimeUUIDToTimeTotal ==
  (last.op = "TimeUUIDToTime" /\ NilOrCanonical(last.recv)) =>
    /\ last.status \in {"ok", "error"}
    /\ last.recv # Nil =>
         /\ last.status = "ok"
         /\ last.tm = Time(U64(Slice(BytesOf(last.recv), 0, 6)))

====
